---------------------------- MODULE Spec2Model ----------------------------
(***************************************************************************)
(* SD card FAT32 root directory reader (src/main.c).                       *)
(*                                                                         *)
(* The program is one thread.  Its state is the position of main and of    *)
(* the driver function it is in (pc, phase), the chip-select line (cs),    *)
(* the locals that live across bus exchanges (timeout, t, i), the sector   *)
(* buffer, the parsed geometry and the text written to USART0 (out).       *)
(* The card is the environment: every byte it shifts back is chosen by \E. *)
(* One step of the model is one bus exchange of the driver (a command with *)
(* the code that follows it up to the next command, one data-token poll,   *)
(* the data phase) or one step of main between two driver calls.           *)
(* bus holds the bus events of the latest step, in order; a step of main   *)
(* that touches no hardware leaves it empty.                               *)
(***************************************************************************)
EXTENDS Integers, Sequences, FiniteSets

VARIABLES pc, phase, ret, cs, bus, timeout, t, sector, buffer, fat32, out,
          reads, i, call

vars == <<pc, phase, ret, cs, bus, timeout, t, sector, buffer, fat32, out,
          reads, i, call>>

(***************************************************************************)
(* Program constants.                                                      *)
(***************************************************************************)
SECTOR_SIZE == 512
RespPolls == 8
DummyBytes == 10
InitRetries == 65535
TokenRetries == 65535
DATA_TOKEN == 254
FILLER == 255
DIR_ENTRY_SIZE == 32

(***************************************************************************)
(* Bounds of the model.                                                    *)
(***************************************************************************)
\* the most busy bytes (0xFF) a card of Spec sends before a response byte
MaxBusy == 1

(***************************************************************************)
(* Fixed-width arithmetic.                                                 *)
(***************************************************************************)
U8(x) == x % 256
U16(x) == x % 65536

\* A 32-bit unsigned value is the pair of its 16-bit halves <<high, low>>:
\* TLC's integers have 32 bits, sign included.
W32(n) == <<n \div 65536, n % 65536>>
Hi(v) == v[1]
Lo(v) == v[2]
Add32(a, b) ==
  LET lo == Lo(a) + Lo(b)
  IN  <<(Hi(a) + Hi(b) + (lo \div 65536)) % 65536, lo % 65536>>
\* a - b modulo 2^32
Sub32(a, b) ==
  LET lo == Lo(a) - Lo(b)
      borrow == IF lo < 0 THEN 1 ELSE 0
  IN  <<(Hi(a) - Hi(b) - borrow + 65536) % 65536, (lo + 65536) % 65536>>
\* k * a modulo 2^32, k an 8-bit value converted to 32 bits
Mul32(k, a) ==
  LET lo == k * Lo(a)
  IN  <<(k * Hi(a) + (lo \div 65536)) % 65536, lo % 65536>>
\* byte k (0 the lowest) of a 32-bit value
Byte32(v, k) ==
  IF k = 0 THEN Lo(v) % 256
  ELSE IF k = 1 THEN Lo(v) \div 256
  ELSE IF k = 2 THEN Hi(v) % 256
  ELSE Hi(v) \div 256

RECURSIVE BitAnd(_, _)
BitAnd(a, b) ==
  IF a = 0 \/ b = 0 THEN 0
  ELSE ((a % 2) * (b % 2)) + 2 * BitAnd(a \div 2, b \div 2)

RECURSIVE BitOr(_, _)
BitOr(a, b) ==
  IF a = 0 THEN b
  ELSE IF b = 0 THEN a
  ELSE (IF (a % 2) + (b % 2) > 0 THEN 1 ELSE 0) + 2 * BitOr(a \div 2, b \div 2)

Shr(x, n) == x \div (2 ^ n)

(***************************************************************************)
(* Bus events: a chip-select write, or one byte exchange (byte shifted     *)
(* out, byte shifted in).                                                  *)
(***************************************************************************)
CsEv(level) == <<"cs", level>>
Tx(o, b) == <<"tx", o, b>>
IsTx(e) == e[1] = "tx"
IsCs(e) == e[1] = "cs"

\* spi_transfer whose returned byte the caller drops; the idle line reads 0xFF
SpiTransfer(o) == Tx(U8(o), FILLER)

\* the chip-select level after a run of events, starting from level
CsAfter(level, evs) ==
  LET writes == {k \in 1..Len(evs) : IsCs(evs[k])}
  IN  IF writes = {} THEN level
      ELSE evs[CHOOSE k \in writes : \A j \in writes : j <= k][2]

SpiSendDummy(n) == [k \in 1..n |-> SpiTransfer(FILLER)]

(***************************************************************************)
(* sd_send_cmd: the frame, then the response poll.  reply is the stream of *)
(* bytes the card shifts back during the poll.                             *)
(***************************************************************************)
\* mutant of CmdFrame: the argument least significant byte first
CmdFrameLsbFirst(cmd, arg, crc) ==
  << CsEv(0),
     SpiTransfer(BitOr(64, cmd)),
     SpiTransfer(Byte32(arg, 0)),
     SpiTransfer(Byte32(arg, 1)),
     SpiTransfer(Byte32(arg, 2)),
     SpiTransfer(Byte32(arg, 3)),
     SpiTransfer(crc) >>

CmdFrame(cmd, arg, crc) ==
  << CsEv(0),
     SpiTransfer(BitOr(64, cmd)),
     SpiTransfer(Byte32(arg, 3)),
     SpiTransfer(Byte32(arg, 2)),
     SpiTransfer(Byte32(arg, 1)),
     SpiTransfer(Byte32(arg, 0)),
     SpiTransfer(crc) >>

\* line 109: a response byte has bit 7 clear
RespReady(b) == BitAnd(b, 128) = 0

\* the number of poll exchanges after k of them saw no response: the loop of
\* lines 107-110 leaves at the first response byte, or after the 8th exchange
RECURSIVE PollCount(_, _)
PollCount(reply, k) ==
  IF RespReady(reply[k + 1]) THEN k + 1
  ELSE IF k + 1 < RespPolls THEN PollCount(reply, k + 1)
  ELSE k + 1

SdSendCmd(cmd, arg, crc, reply) ==
  LET n == PollCount(reply, 0)
  IN  [ res |-> reply[n],
        bus |-> CmdFrame(cmd, arg, crc) \o [k \in 1..n |-> Tx(FILLER, reply[k])] ]

(***************************************************************************)
(* The card of Spec.  A reply stream is MaxBusy or fewer busy bytes, then  *)
(* a response code, or no response at all within the 8 polls.              *)
(***************************************************************************)
RespCodes == {0, 1}
Reply(k, r) ==
  [j \in 1..RespPolls |-> IF j <= k THEN FILLER ELSE IF j = k + 1 THEN r ELSE FILLER]
NoReply == [j \in 1..RespPolls |-> FILLER]
CardReplies == {Reply(k, r) : k \in 0..MaxBusy, r \in RespCodes} \cup {NoReply}

\* the four bytes after an R7 / R3 response: the CMD8 echo, an OCR, zeros
Tails4 == { <<0, 0, 1, 170>>, <<0, 0, 0, 0>>, <<192, 255, 128, 0>> }
\* what the card shifts back while the driver waits for the data token
PollBytes == {DATA_TOKEN, FILLER}
\* the two checksum bytes after a data block
Crcs == { <<0, 0>>, <<18, 52>> }

(***************************************************************************)
(* A byte array of the program is the sequence of its bytes: element k of  *)
(* the array (counted from 0, as in C) is Byte(a, k).                      *)
(***************************************************************************)
Byte(a, k) == a[k + 1]
\* the array whose element k is f[k], f a function on 0..n-1
AsArray(f, n) == [k \in 1..n |-> f[k - 1]]

\* little-endian fields
LE16(b, o) == Byte(b, o) + 256 * Byte(b, o + 1)
LE32(b, o) == <<Byte(b, o + 2) + 256 * Byte(b, o + 3), Byte(b, o) + 256 * Byte(b, o + 1)>>
\* byte k (0 the lowest) of a 16-bit value
ByteOf(v, k) == Shr(v, 8 * k) % 256

(***************************************************************************)
(* Card images: what the card holds at the sectors main reads.             *)
(***************************************************************************)
Pad(k) == (7 * k + 3) % 256

MbrBlock(ps) ==
  AsArray([k \in 0..SECTOR_SIZE - 1 |->
             IF k \in 454..457 THEN Byte32(ps, k - 454)
             ELSE IF k = 510 THEN 85 ELSE IF k = 511 THEN 170 ELSE Pad(k)],
          SECTOR_SIZE)

VbrBlock(bps, spc, rsvd, nfats, fatsz, rootcl) ==
  AsArray([k \in 0..SECTOR_SIZE - 1 |->
             IF k \in 11..12 THEN ByteOf(bps, k - 11)
             ELSE IF k = 13 THEN spc
             ELSE IF k \in 14..15 THEN ByteOf(rsvd, k - 14)
             ELSE IF k = 16 THEN nfats
             ELSE IF k \in 36..39 THEN Byte32(fatsz, k - 36)
             ELSE IF k \in 44..47 THEN Byte32(rootcl, k - 44)
             ELSE IF k = 510 THEN 85 ELSE IF k = 511 THEN 170 ELSE Pad(k)],
          SECTOR_SIZE)

\* a 32-byte directory slot: 11 name bytes, the attribute byte, the size
Slot(name, attr, size) ==
  AsArray([k \in 0..DIR_ENTRY_SIZE - 1 |->
             IF k < 11 THEN name[k + 1]
             ELSE IF k = 11 THEN attr
             ELSE IF k >= 28 THEN Byte32(size, k - 28)
             ELSE 0],
          DIR_ENTRY_SIZE)

\* a block from a sequence of slots; the slots after them are zero (free)
DirBlock(slots) ==
  AsArray([k \in 0..SECTOR_SIZE - 1 |->
             IF (k \div DIR_ENTRY_SIZE) + 1 <= Len(slots)
             THEN Byte(slots[(k \div DIR_ENTRY_SIZE) + 1], k % DIR_ENTRY_SIZE)
             ELSE 0],
          SECTOR_SIZE)

(***************************************************************************)
(* USART0 output: out is the sequence of writes, each a tagged payload:    *)
(* "lit" a string literal given to usart0_puts, "str" the characters       *)
(* usart0_puts sends from a buffer (those before its first NUL), "chr"     *)
(* characters sent one by one with usart0_putc.                            *)
(***************************************************************************)
Lit(s) == <<"lit", s>>

RECURSIVE UpToNul(_)
UpToNul(chars) ==
  IF chars = <<>> \/ Head(chars) = 0 THEN <<>>
  ELSE <<Head(chars)>> \o UpToNul(Tail(chars))

Puts(chars) == <<"str", UpToNul(chars)>>

HexDigit(n) == IF n < 10 THEN 48 + n ELSE 55 + n
PrintHex(v) == <<"chr", <<HexDigit(BitAnd(Shr(v, 4), 15)), HexDigit(BitAnd(v, 15))>>>>

\* itoa(int, char *, 10) of avr-libc; int has 16 bits on the AVR, so a 32-bit
\* argument is converted to int first: its low half, read as two's complement
RECURSIVE Digits(_)
Digits(n) ==
  IF n < 10 THEN <<48 + n>> ELSE Digits(n \div 10) \o <<48 + (n % 10)>>

ToInt16(v) == IF Lo(v) >= 32768 THEN Lo(v) - 65536 ELSE Lo(v)

Itoa(v) ==
  LET x == ToInt16(v)
  IN  IF x < 0 THEN <<45>> \o Digits(-x) ELSE Digits(x)

(***************************************************************************)
(* parse_fat32_info and the cluster-to-sector mapping of main.             *)
(***************************************************************************)
\* mutant of ParseFat32Info: the FAT size is taken from the 16-bit field of
\* FAT12/16 at bytes 22..23
ParseFat32InfoFat16(sec) ==
  LET rsvd  == U16(LE16(sec, 14))
      nfats == Byte(sec, 16)
      fatsz == W32(LE16(sec, 22))
  IN  [ bytes_per_sector      |-> U16(LE16(sec, 11)),
        sectors_per_cluster   |-> Byte(sec, 13),
        reserved_sector_count |-> rsvd,
        num_fats              |-> nfats,
        fat_size              |-> fatsz,
        root_cluster          |-> LE32(sec, 44),
        fat_start             |-> W32(rsvd),
        data_start            |-> Add32(W32(rsvd), Mul32(nfats, fatsz)) ]

ParseFat32Info(sec) ==
  LET rsvd  == U16(LE16(sec, 14))
      nfats == Byte(sec, 16)
      fatsz == LE32(sec, 36)
  IN  [ bytes_per_sector      |-> U16(LE16(sec, 11)),
        sectors_per_cluster   |-> Byte(sec, 13),
        reserved_sector_count |-> rsvd,
        num_fats              |-> nfats,
        fat_size              |-> fatsz,
        root_cluster          |-> LE32(sec, 44),
        fat_start             |-> W32(rsvd),
        data_start            |-> Add32(W32(rsvd), Mul32(nfats, fatsz)) ]

NoFat32 ==
  [ bytes_per_sector |-> 0, sectors_per_cluster |-> 0, reserved_sector_count |-> 0,
    num_fats |-> 0, fat_size |-> W32(0), root_cluster |-> W32(0),
    fat_start |-> W32(0), data_start |-> W32(0) ]

\* mutant of FirstRootSector: the two reserved clusters are not taken off
FirstRootSectorNoBias(info) ==
  Add32(info.data_start, Mul32(info.sectors_per_cluster, info.root_cluster))

FirstRootSector(info) ==
  Add32(info.data_start,
        Mul32(info.sectors_per_cluster, Sub32(info.root_cluster, W32(2))))

PartStart(sec) == LE32(sec, 454)

(***************************************************************************)
(* print_filename and print_dir_entry.  An entry is an array of 32 bytes.   *)
(***************************************************************************)
EntryAt(buf, off) == AsArray([k \in 0..DIR_ENTRY_SIZE - 1 |-> Byte(buf, off + k)], DIR_ENTRY_SIZE)

\* mutant of CopyField: the loop does not stop at a space
RECURSIVE CopyFieldAll(_, _, _)
CopyFieldAll(entry, k, lim) ==
  IF k >= lim THEN <<>>
  ELSE <<Byte(entry, k)>> \o CopyFieldAll(entry, k + 1, lim)

\* the bytes of entry[k .. lim-1] up to the first space
RECURSIVE CopyField(_, _, _)
CopyField(entry, k, lim) ==
  IF k >= lim \/ Byte(entry, k) = 32 THEN <<>>
  ELSE <<Byte(entry, k)>> \o CopyField(entry, k + 1, lim)

\* mutant of NameBuf: the extension loop runs one byte too far (i <= 11)
NameBufLongExt(entry) ==
  CopyField(entry, 0, 8)
    \o (IF Byte(entry, 8) # 32 THEN <<46>> \o CopyField(entry, 8, 12) ELSE <<>>)

\* the characters of name[] before the terminating zero print_filename adds
NameBuf(entry) ==
  CopyField(entry, 0, 8)
    \o (IF Byte(entry, 8) # 32 THEN <<46>> \o CopyField(entry, 8, 11) ELSE <<>>)

PrintFilename(entry) == Puts(NameBuf(entry) \o <<0>>)

\* mutant of Skipped: the test for a deleted entry (0xE5) left out
SkippedNoDeleted(entry) ==
  Byte(entry, 0) = 0 \/ BitAnd(Byte(entry, 11), 8) # 0

\* line 217: the entries print_dir_entry returns on without output
Skipped(entry) ==
  Byte(entry, 0) = 0 \/ Byte(entry, 0) = 229 \/ BitAnd(Byte(entry, 11), 8) # 0

FileSize(entry) == LE32(entry, 28)

PrintDirEntry(entry) ==
  IF Skipped(entry) THEN <<>>
  ELSE << Lit("Name: "), PrintFilename(entry), Lit(" | Attr: "),
          PrintHex(Byte(entry, 11)), Lit(" | Size: "),
          Puts(Itoa(FileSize(entry)) \o <<0>>), Lit("\r\n") >>

(***************************************************************************)
(* The card images of Spec.                                                *)
(***************************************************************************)
PartStarts == {W32(2048), W32(65599)}
Mbrs == {MbrBlock(p) : p \in PartStarts}
Vbrs == { VbrBlock(512, 4, 32, 2, W32(100), W32(2)),
          VbrBlock(512, 8, 32, 2, W32(100), W32(0)) }

NameHello == <<72, 69, 76, 76, 79, 32, 32, 32, 84, 88, 84>>
NameLabel == <<83, 68, 67, 65, 82, 68, 32, 32, 32, 32, 32>>
NameNoDot == <<78, 79, 68, 79, 84, 32, 32, 32, 32, 32, 32>>
NameGone  == <<229, 76, 68, 32, 32, 32, 32, 32, 66, 65, 75>>
NameFree  == <<0, 0, 0, 0, 0, 0, 0, 0, 0, 0, 0>>

RootDirs ==
  { DirBlock(<<Slot(NameHello, 32, W32(10))>>),
    DirBlock(<<Slot(NameLabel, 8, W32(0)), Slot(NameGone, 32, W32(4096)),
               Slot(NameNoDot, 16, W32(0)), Slot(NameFree, 0, W32(0)),
               Slot(NameHello, 32, W32(70000))>>) }

\* what the card sends as the data block of the sector at address sec
CardBlocks(sec) ==
  IF sec = W32(0) THEN Mbrs ELSE IF sec \in PartStarts THEN Vbrs ELSE RootDirs

\* the buffer of main before the first successful read.  Its bytes are
\* indeterminate and the program reads none of them: the array is modelled
\* with no byte defined, so that a read of one is an evaluation error.
Uninit == <<>>

(***************************************************************************)
(* State.                                                                  *)
(***************************************************************************)
Init ==
  /\ pc = "M_begin"
  /\ phase = 0
  /\ ret = 1
  /\ cs = 0
  /\ bus = <<>>
  /\ timeout = 0
  /\ t = 0
  /\ sector = W32(0)
  /\ buffer = Uninit
  /\ fat32 = NoFat32
  /\ out = <<>>
  /\ reads = <<>>
  /\ i = 0
  /\ call = <<>>

\* a driver function returns v to main; its locals die
Return(v) ==
  /\ pc' = "M_ret"
  /\ ret' = v
  /\ timeout' = 0
  /\ t' = 0

\* a driver step that emits the events evs
Emit(evs) ==
  /\ bus' = evs
  /\ cs' = CsAfter(cs, evs)

\* the four bytes read and dropped after an R7 / R3 response
Drop4(tail) == [k \in 1..4 |-> Tx(FILLER, tail[k])]

\* SD_CS_HIGH(); spi_transfer(0xFF);
Release == <<CsEv(1), SpiTransfer(FILLER)>>

(***************************************************************************)
(* sd_init, lines 114-140.                                                 *)
(***************************************************************************)
\* lines 115-116
InitStart ==
  /\ pc = "I_start"
  /\ Emit(<<CsEv(1)>> \o SpiSendDummy(DummyBytes))
  /\ pc' = "I_cmd0"
  /\ UNCHANGED <<phase, ret, timeout, t, sector, buffer, fat32, out, reads, i, call>>

\* line 119
Cmd0Ok(res) == res = 1

InitCmd0 ==
  /\ pc = "I_cmd0"
  /\ \E reply \in CardReplies :
       LET c == SdSendCmd(0, W32(0), 149, reply)
       IN  /\ Emit(c.bus)
           /\ IF Cmd0Ok(c.res)
              THEN pc' = "I_cmd8" /\ UNCHANGED <<ret, timeout, t>>
              ELSE Return(0)
  /\ UNCHANGED <<phase, sector, buffer, fat32, out, reads, i, call>>

\* mutant of Cmd8Ok: the response to CMD8 is not looked at
Cmd8OkAny(res) == TRUE

\* line 122
Cmd8Ok(res) == res = 1

\* lines 122-126
InitCmd8 ==
  /\ pc = "I_cmd8"
  /\ \E reply \in CardReplies, tail \in Tails4 :
       LET c == SdSendCmd(8, W32(426), 135, reply)
       IN  IF Cmd8Ok(c.res)
           THEN /\ Emit(c.bus \o Drop4(tail))
                /\ pc' = "I_cmd55"
                /\ timeout' = InitRetries
                /\ UNCHANGED <<ret, t>>
           ELSE /\ Emit(c.bus)
                /\ Return(0)
  /\ UNCHANGED <<phase, sector, buffer, fat32, out, reads, i, call>>

\* line 128
InitCmd55 ==
  /\ pc = "I_cmd55"
  /\ \E reply \in CardReplies :
       Emit(SdSendCmd(55, W32(0), 101, reply).bus)
  /\ pc' = "I_cmd41"
  /\ UNCHANGED <<phase, ret, timeout, t, sector, buffer, fat32, out, reads, i, call>>

\* mutant of CardReady: any response without the high bit counts as ready
CardReadyAnyR1(res) == res < 128

\* line 129
CardReady(res) == res = 0

\* mutant of NextTimeout: the counter is not decremented
NextTimeoutStuck(n) == n

\* line 130: --timeout
NextTimeout(n) == U16(n - 1)

\* lines 129-131: one CMD41 and the test that ends or repeats the round.  The
\* counter is read for the last time by line 131, which passes after a break
\* (the counter is not 0 there); from then on it is dead and kept as 0.
InitCmd41 ==
  /\ pc = "I_cmd41"
  /\ \E reply \in CardReplies :
       LET c == SdSendCmd(41, W32(1073741824), 119, reply)
       IN  /\ Emit(c.bus)
           /\ IF CardReady(c.res)
              THEN pc' = "I_cmd58" /\ timeout' = 0 /\ UNCHANGED <<ret, t>>
              ELSE IF NextTimeout(timeout) # 0
              THEN /\ pc' = "I_cmd55"
                   /\ timeout' = NextTimeout(timeout)
                   /\ UNCHANGED <<ret, t>>
              ELSE Return(0)
  /\ UNCHANGED <<phase, sector, buffer, fat32, out, reads, i, call>>

\* line 134
Cmd58Ok(res) == res = 0

\* lines 134-139
InitCmd58 ==
  /\ pc = "I_cmd58"
  /\ \E reply \in CardReplies, tail \in Tails4 :
       LET c == SdSendCmd(58, W32(0), 253, reply)
       IN  IF Cmd58Ok(c.res)
           THEN /\ Emit(c.bus \o Drop4(tail) \o Release)
                /\ Return(1)
           ELSE /\ Emit(c.bus)
                /\ Return(0)
  /\ UNCHANGED <<phase, sector, buffer, fat32, out, reads, i, call>>

(***************************************************************************)
(* sd_read_sector, lines 142-169.                                          *)
(***************************************************************************)
\* line 144
Cmd17Ok(res) == res = 0

\* lines 143-150
ReadCmd ==
  /\ pc = "R_cmd"
  /\ \E reply \in CardReplies :
       LET c == SdSendCmd(17, sector, FILLER, reply)
       IN  IF Cmd17Ok(c.res)
           THEN /\ Emit(<<CsEv(0)>> \o c.bus)
                /\ pc' = "R_token"
                /\ t' = TokenRetries
                /\ UNCHANGED <<ret, timeout>>
           ELSE /\ Emit(<<CsEv(0)>> \o c.bus \o Release)
                /\ Return(0)
  /\ UNCHANGED <<phase, sector, buffer, fat32, out, reads, i, call>>

\* mutant of IsToken: the idle byte 0xFF is taken for the token too
IsTokenOrIdle(b) == b >= DATA_TOKEN

\* line 154
IsToken(b) == b = DATA_TOKEN

\* line 155: --t
NextT(n) == U16(n - 1)

\* mutant of ReadToken: every polled byte is stored in buffer[0] before it is
\* compared with the token
ReadTokenStoring ==
  /\ pc = "R_token"
  /\ \E b \in PollBytes :
       /\ buffer' = <<b>> \o (IF buffer = <<>> THEN <<>> ELSE Tail(buffer))
       /\ IF IsToken(b)
          THEN /\ Emit(<<Tx(FILLER, b)>>)
               /\ pc' = "R_data"
               /\ t' = 0
               /\ UNCHANGED <<ret, timeout>>
          ELSE IF NextT(t) # 0
          THEN /\ Emit(<<Tx(FILLER, b)>>)
               /\ t' = NextT(t)
               /\ UNCHANGED <<pc, ret, timeout>>
          ELSE /\ Emit(<<Tx(FILLER, b)>> \o Release)
               /\ Return(0)
  /\ UNCHANGED <<phase, sector, fat32, out, reads, i, call>>

\* lines 152-160: one pass of the token loop.  After the break line 156 passes
\* (t is not 0) and t is dead: it is kept as 0.
ReadToken ==
  /\ pc = "R_token"
  /\ \E b \in PollBytes :
       IF IsToken(b)
       THEN /\ Emit(<<Tx(FILLER, b)>>)
            /\ pc' = "R_data"
            /\ t' = 0
            /\ UNCHANGED <<ret, timeout>>
       ELSE IF NextT(t) # 0
       THEN /\ Emit(<<Tx(FILLER, b)>>)
            /\ t' = NextT(t)
            /\ UNCHANGED <<pc, ret, timeout>>
       ELSE /\ Emit(<<Tx(FILLER, b)>> \o Release)
            /\ Return(0)
  /\ UNCHANGED <<phase, sector, buffer, fat32, out, reads, i, call>>

\* mutant of StoreData: the block is stored from its end
StoreDataReversed(rx) == AsArray([k \in 0..SECTOR_SIZE - 1 |-> rx[SECTOR_SIZE - k]], SECTOR_SIZE)

\* line 162: buffer[i] = spi_transfer(0xFF) for i = 0..511, rx the bytes received
StoreData(rx) == AsArray([k \in 0..SECTOR_SIZE - 1 |-> rx[k + 1]], SECTOR_SIZE)

\* lines 162-168
ReadData ==
  /\ pc = "R_data"
  /\ \E blk \in CardBlocks(sector), crc \in Crcs :
       LET rx == [k \in 1..SECTOR_SIZE |-> Byte(blk, k - 1)]
       IN  /\ Emit([k \in 1..SECTOR_SIZE |-> Tx(FILLER, rx[k])]
                     \o <<Tx(FILLER, crc[1]), Tx(FILLER, crc[2])>> \o Release)
           /\ buffer' = StoreData(rx)
  /\ Return(1)
  /\ UNCHANGED <<phase, sector, fat32, out, reads, i, call>>

(***************************************************************************)
(* main, lines 233-285.  A call of sd_read_sector is recorded in reads.    *)
(***************************************************************************)
CallRead(addr, nextPhase) ==
  /\ pc' = "R_cmd"
  /\ sector' = addr
  /\ phase' = nextPhase
  /\ reads' = Append(reads, addr)

\* the while (1); that ends every path of main
Halt == pc' = "halt" /\ UNCHANGED <<sector, phase, reads>>

\* lines 237-241
MainBegin ==
  /\ pc = "M_begin"
  /\ out' = Append(out, Lit("\r\nInitializing SD Card...\r\n"))
  /\ pc' = "I_start"
  /\ bus' = <<>>
  /\ UNCHANGED <<phase, ret, cs, timeout, t, sector, buffer, fat32, reads, i, call>>

\* mutant of MainAfterInit: the result of sd_init is not tested
MainAfterInitUnchecked ==
  /\ pc = "M_ret" /\ phase = 0
  /\ out' = Append(out, Lit("SD Card OK.\r\n")) /\ CallRead(W32(0), 1)
  /\ bus' = <<>>
  /\ UNCHANGED <<ret, cs, timeout, t, buffer, fat32, i, call>>

\* lines 241-248
MainAfterInit ==
  /\ pc = "M_ret" /\ phase = 0
  /\ IF ret = 0
     THEN out' = Append(out, Lit("SD Card init failed!\r\n")) /\ Halt
     ELSE out' = Append(out, Lit("SD Card OK.\r\n")) /\ CallRead(W32(0), 1)
  /\ bus' = <<>>
  /\ UNCHANGED <<ret, cs, timeout, t, buffer, fat32, i, call>>

\* lines 248-257
MainAfterMbr ==
  /\ pc = "M_ret" /\ phase = 1
  /\ IF ret = 0
     THEN out' = Append(out, Lit("MBR read error\r\n")) /\ Halt
     ELSE out' = out /\ CallRead(PartStart(buffer), 2)
  /\ bus' = <<>>
  /\ UNCHANGED <<ret, cs, timeout, t, buffer, fat32, i, call>>

\* lines 257-274
MainAfterVbr ==
  /\ pc = "M_ret" /\ phase = 2
  /\ IF ret = 0
     THEN /\ out' = Append(out, Lit("VBR read error\r\n"))
          /\ Halt
          /\ UNCHANGED fat32
     ELSE LET info == ParseFat32Info(buffer)
          IN  /\ fat32' = info
              /\ out' = out \o << Lit("FAT32 detected. Root Cluster: "),
                                  Puts(Itoa(info.root_cluster) \o <<0>>),
                                  Lit("\r\n") >>
              /\ CallRead(FirstRootSector(info), 3)
  /\ bus' = <<>>
  /\ UNCHANGED <<ret, cs, timeout, t, buffer, i, call>>

\* mutant of MainAfterRoot: the result of the root-directory read is not tested
MainAfterRootUnchecked ==
  /\ pc = "M_ret" /\ phase = 3
  /\ out' = Append(out, Lit("Root Directory:\r\n"))
  /\ pc' = "M_dir"
  /\ i' = 0
  /\ bus' = <<>>
  /\ UNCHANGED <<sector, phase, reads, ret, cs, timeout, t, buffer, fat32, call>>

\* lines 274-280
MainAfterRoot ==
  /\ pc = "M_ret" /\ phase = 3
  /\ IF ret = 0
     THEN out' = Append(out, Lit("Root dir read error\r\n")) /\ Halt /\ UNCHANGED i
     ELSE /\ out' = Append(out, Lit("Root Directory:\r\n"))
          /\ pc' = "M_dir"
          /\ i' = 0
          /\ UNCHANGED <<sector, phase, reads>>
  /\ bus' = <<>>
  /\ UNCHANGED <<ret, cs, timeout, t, buffer, fat32, call>>

\* lines 280-284: one pass of the loop over the 16 slots
MainDir ==
  /\ pc = "M_dir"
  /\ out' = out \o PrintDirEntry(EntryAt(buffer, i))
  /\ i' = i + DIR_ENTRY_SIZE
  /\ pc' = IF i + DIR_ENTRY_SIZE < SECTOR_SIZE THEN "M_dir" ELSE "halt"
  /\ bus' = <<>>
  /\ UNCHANGED <<phase, ret, cs, timeout, t, sector, buffer, fat32, reads, call>>

Next ==
  \/ MainBegin
  \/ InitStart
  \/ InitCmd0
  \/ InitCmd8
  \/ InitCmd55
  \/ InitCmd41
  \/ InitCmd58
  \/ MainAfterInit
  \/ ReadCmd
  \/ ReadToken
  \/ ReadData
  \/ MainAfterMbr
  \/ MainAfterVbr
  \/ MainAfterRoot
  \/ MainDir

Spec == Init /\ [][Next]_vars

(***************************************************************************)
(* SpecCmd: one call of sd_send_cmd on its own, for every reply stream     *)
(* over ReplyBytes.  call holds the arguments (the argument as its four    *)
(* bytes, most significant first) and the card's reply stream.             *)
(***************************************************************************)
ReplyBytes == {0, 1, 128, 255}
CmdArgs ==
  { [cmd |-> 8,  arg |-> <<0, 0, 1, 170>>,   crc |-> 135],
    [cmd |-> 41, arg |-> <<64, 0, 0, 0>>,    crc |-> 119],
    [cmd |-> 17, arg |-> <<18, 52, 86, 120>>, crc |-> 255] }

\* the 32-bit value whose bytes, most significant first, are b
ArgOf(b) == <<256 * b[1] + b[2], 256 * b[3] + b[4]>>

InitCmd ==
  /\ pc = "C_call"
  /\ call \in { [cmd |-> a.cmd, arg |-> a.arg, crc |-> a.crc, reply |-> r] :
                  a \in CmdArgs, r \in [1..RespPolls -> ReplyBytes] }
  /\ phase = 0
  /\ ret = 1
  /\ cs = 1
  /\ bus = <<>>
  /\ timeout = 0
  /\ t = 0
  /\ sector = W32(0)
  /\ buffer = Uninit
  /\ fat32 = NoFat32
  /\ out = <<>>
  /\ reads = <<>>
  /\ i = 0

\* lines 96-112: the call returns res
CmdCall ==
  /\ pc = "C_call"
  /\ LET c == SdSendCmd(call.cmd, ArgOf(call.arg), call.crc, call.reply)
     IN  Emit(c.bus) /\ ret' = c.res
  /\ pc' = "C_done"
  /\ UNCHANGED <<phase, timeout, t, sector, buffer, fat32, out, reads, i, call>>

NextCmd == CmdCall

SpecCmd == InitCmd /\ [][NextCmd]_vars

(***************************************************************************)
(* SpecDir: the loop of main over the 16 slots of a root-directory block,  *)
(* for every block that alternates two slots of DirSlots.                  *)
(***************************************************************************)
FirstBytes == {0, 229, 65, 5, 46}
AttrBytes == {0, 8, 15, 16, 32, 40, 247}
DirSlots ==
  { Slot(<<f, 66, 67, 32, 32, 32, 32, 32, 84, 88, 84>>, a, W32(4096)) :
      f \in FirstBytes, a \in AttrBytes }
DirImages ==
  { DirBlock([k \in 1..(SECTOR_SIZE \div DIR_ENTRY_SIZE) |->
                IF k % 2 = 1 THEN a ELSE b]) : a \in DirSlots, b \in DirSlots }

InitDir ==
  /\ pc = "M_dir"
  /\ buffer \in DirImages
  /\ i = 0
  /\ out = <<>>
  /\ phase = 3
  /\ ret = 1
  /\ cs = 1
  /\ bus = <<>>
  /\ timeout = 0
  /\ t = 0
  /\ sector = W32(232)
  /\ fat32 = NoFat32
  /\ reads = <<W32(232)>>
  /\ call = <<>>

NextDir == MainDir

SpecDir == InitDir /\ [][NextDir]_vars

(***************************************************************************)
(* SpecName: one call of print_filename on its own, for every raw name     *)
(* whose byte k is a space, the k-th byte of Letters or a third byte: 0x05 *)
(* for the first byte (print_dir_entry passes on no entry whose first byte *)
(* is 0x00 or 0xE5), zero for the others.  call is the directory entry the *)
(* name is read from.                                                      *)
(***************************************************************************)
Letters == <<65, 66, 67, 68, 69, 70, 71, 229, 88, 89, 46>>
RawNames ==
  { [k \in 1..11 |-> IF f[k] = 0 THEN 32
                     ELSE IF f[k] = 2 THEN Letters[k]
                     ELSE IF k = 1 THEN 5 ELSE 0] :
      f \in [1..11 -> 0..2] }

InitName ==
  /\ pc = "N_call"
  /\ call \in {Slot(n, 16, W32(0)) : n \in RawNames}
  /\ phase = 3
  /\ ret = 1
  /\ cs = 1
  /\ bus = <<>>
  /\ timeout = 0
  /\ t = 0
  /\ sector = W32(232)
  /\ buffer = Uninit
  /\ fat32 = NoFat32
  /\ out = <<>>
  /\ reads = <<W32(232)>>
  /\ i = 0

\* lines 196-213
NameCall ==
  /\ pc = "N_call"
  /\ out' = Append(out, PrintFilename(call))
  /\ pc' = "N_done"
  /\ UNCHANGED <<phase, ret, cs, bus, timeout, t, sector, buffer, fat32, reads, i, call>>

NextName == NameCall

SpecName == InitName /\ [][NextName]_vars

(***************************************************************************)
(* SpecEntry: one call of print_dir_entry on its own, for the entries of a *)
(* file, a directory and a volume label whose four size bytes are drawn    *)
(* from SizeBytes.                                                         *)
(***************************************************************************)
SizeBytes == {0, 1, 16, 128, 255}
Sizes ==
  { <<256 * b3 + b2, 256 * b1 + b0>> :
      b0 \in SizeBytes, b1 \in SizeBytes, b2 \in SizeBytes, b3 \in SizeBytes }
SizeEntries == {Slot(NameHello, a, sz) : a \in {32, 16, 8}, sz \in Sizes}

InitEntry ==
  /\ pc = "E_call"
  /\ call \in SizeEntries
  /\ phase = 3
  /\ ret = 1
  /\ cs = 1
  /\ bus = <<>>
  /\ timeout = 0
  /\ t = 0
  /\ sector = W32(232)
  /\ buffer = Uninit
  /\ fat32 = NoFat32
  /\ out = <<>>
  /\ reads = <<W32(232)>>
  /\ i = 0

\* lines 215-230
EntryCall ==
  /\ pc = "E_call"
  /\ out' = out \o PrintDirEntry(call)
  /\ pc' = "E_done"
  /\ UNCHANGED <<phase, ret, cs, bus, timeout, t, sector, buffer, fat32, reads, i, call>>

NextEntry == EntryCall

SpecEntry == InitEntry /\ [][NextEntry]_vars

(***************************************************************************)
(* SpecParse: main from the return of the boot-sector read, for the boot   *)
(* sectors whose fields are drawn from the sets below: parse_fat32_info,   *)
(* the root-cluster message and the call that reads the root directory.    *)
(***************************************************************************)
ParseSpcs == {1, 8, 128}
ParseRsvds == {0, 32, 65535}
ParseNfats == {0, 1, 2, 255}
ParseFatSizes == {W32(0), W32(100), <<1, 0>>, <<257, 4660>>, <<65535, 65535>>}
ParseRoots == {W32(0), W32(1), W32(2), W32(3), <<65535, 65535>>}
ParseVbrs ==
  { VbrBlock(512, spc, rsvd, nf, fsz, rc) :
      spc \in ParseSpcs, rsvd \in ParseRsvds, nf \in ParseNfats,
      fsz \in ParseFatSizes, rc \in ParseRoots }

InitParse ==
  /\ pc = "M_ret"
  /\ phase = 2
  /\ ret = 1
  /\ buffer \in ParseVbrs
  /\ cs = 1
  /\ bus = <<>>
  /\ timeout = 0
  /\ t = 0
  /\ sector = W32(2048)
  /\ fat32 = NoFat32
  /\ out = <<>>
  /\ reads = <<W32(0), W32(2048)>>
  /\ i = 0
  /\ call = <<>>

NextParse == MainAfterVbr

SpecParse == InitParse /\ [][NextParse]_vars

(***************************************************************************)
(* Reading the bus log.                                                    *)
(***************************************************************************)
\* the byte exchanges of a log, in order
Exchanges(evs) == SelectSeq(evs, IsTx)
\* the log is a command exchange: it starts by asserting chip-select
HasCmd(evs) == evs # <<>> /\ evs[1] = CsEv(0)
\* the command index of a command exchange (-1: the log has no command)
CmdIn(evs) == IF HasCmd(evs) THEN Exchanges(evs)[1][2] - 64 ELSE -1
\* the first of the polled bytes with the high bit clear, else the 8th
FirstClear(stream) ==
  LET clear == {k \in 1..RespPolls : stream[k] < 128}
  IN  IF clear = {} THEN RespPolls
      ELSE CHOOSE k \in clear : \A j \in clear : k <= j

\* the response byte of a command exchange: the first of its (at most 8)
\* polled bytes with the high bit clear, else the 8th
RespIn(evs) ==
  LET x == Exchanges(evs)
      last == IF Len(x) < 6 + RespPolls THEN Len(x) ELSE 6 + RespPolls
      clear == {k \in 7..last : x[k][3] < 128}
  IN  IF clear = {} THEN (IF last >= 7 THEN x[last][3] ELSE 255)
      ELSE x[CHOOSE k \in clear : \A j \in clear : k <= j][3]
\* the argument bytes of a command exchange, in the order sent
ArgIn(evs) == [k \in 1..4 |-> Exchanges(evs)[1 + k][2]]
\* chip-select deasserted, then at least 10 fillers and nothing else
IdleClocks(evs) ==
  /\ Len(evs) >= 11
  /\ evs[1] = CsEv(1)
  /\ \A k \in 2..Len(evs) : IsTx(evs[k]) /\ evs[k][2] = 255
  /\ 8 * (Len(evs) - 1) >= 74
\* the log ends with chip-select deasserted and one filler after it
Released(evs) ==
  /\ Len(evs) >= 2
  /\ evs[Len(evs) - 1] = CsEv(1)
  /\ IsTx(evs[Len(evs)]) /\ evs[Len(evs)][2] = 255

InInit == pc \in {"I_start", "I_cmd0", "I_cmd8", "I_cmd55", "I_cmd41", "I_cmd58"}
InRead == pc \in {"R_cmd", "R_token", "R_data"}
Returns(v) == pc' = "M_ret" /\ ret' = v
\* a driver call has returned failure to main
Failed == pc \in {"M_ret", "halt"} /\ ret = 0

(***************************************************************************)
(* C1  Short-circuit on first failure: once sd_init or a sd_read_sector    *)
(* has returned failure, no step exchanges a byte, writes chip-select or   *)
(* calls sd_read_sector; if sd_init failed, sd_read_sector was never       *)
(* called.                                                                 *)
(***************************************************************************)
C1_ShortCircuit ==
  /\ [][Failed => (bus' = <<>> /\ cs' = cs /\ reads' = reads)]_vars
  /\ []((Failed /\ phase = 0) => reads = <<>>)

\* sd_init has failed and main has written its message and stopped
C1_Witness ==
  /\ pc = "halt"
  /\ phase = 0
  /\ ret = 0
  /\ out[Len(out)] = Lit("SD Card init failed!\r\n")

(***************************************************************************)
(* C2  Order of sd_init on the bus: chip-select deasserted and at least 74 *)
(* idle clocks before any command byte, then CMD0, then CMD8 with argument *)
(* 0x1AA, then rounds of CMD55 each followed at once by CMD41, then CMD58; *)
(* a command is sent only if the step before it got its response (0x01    *)
(* for CMD0 and CMD8, 0x00 from a CMD41 before CMD58).                     *)
(***************************************************************************)
C2_Order ==
  [][ InInit =>
        LET c == CmdIn(bus')
        IN  /\ c \in {-1, 0, 8, 55, 41, 58}
            /\ (pc = "I_start") => IdleClocks(bus')
            /\ (c = -1) => (pc = "I_start")
            /\ (c = 0) => IdleClocks(bus)
            /\ (c = 8) => (CmdIn(bus) = 0 /\ RespIn(bus) = 1 /\ ArgIn(bus') = <<0, 0, 1, 170>>)
            /\ (c = 55) => \/ (CmdIn(bus) = 8 /\ RespIn(bus) = 1)
                           \/ (CmdIn(bus) = 41 /\ RespIn(bus) # 0)
            /\ (c = 41) => (CmdIn(bus) = 55)
            /\ (CmdIn(bus) = 55) => (c = 41)
            /\ (c = 58) => (CmdIn(bus) = 41 /\ RespIn(bus) = 0) ]_vars

\* sd_init has gone through every step and returned success
C2_Witness ==
  /\ pc = "M_ret"
  /\ phase = 0
  /\ ret = 1
  /\ CmdIn(bus) = 58

(***************************************************************************)
(* C3  Result of sd_init: failure when the CMD0 response is not 0x01, the  *)
(* CMD8 response is not 0x01, none of 65535 rounds of CMD55+CMD41 answers  *)
(* 0x00, or the CMD58 response is not 0x00; success when a round up to the *)
(* 65535th answers 0x00 and the other steps match.  The round counter      *)
(* starts at 65535, loses one per failed round and never is 0 in the loop, *)
(* and no step goes back to an earlier command.                            *)
(***************************************************************************)
C3_Step ==
  LET r == RespIn(bus')
  IN  /\ (pc = "I_start") => (pc' = "I_cmd0")
      /\ (pc = "I_cmd0") => IF r = 1 THEN pc' = "I_cmd8" ELSE Returns(0)
      /\ (pc = "I_cmd8") =>
           IF r = 1 THEN pc' = "I_cmd55" /\ timeout' = 65535 ELSE Returns(0)
      /\ (pc = "I_cmd55") => (pc' = "I_cmd41" /\ timeout' = timeout)
      /\ (pc = "I_cmd41") =>
           IF r = 0 THEN pc' = "I_cmd58"
           ELSE IF timeout > 1 THEN pc' = "I_cmd55" /\ timeout' = timeout - 1
           ELSE Returns(0)
      /\ (pc = "I_cmd58") => IF r = 0 THEN Returns(1) ELSE Returns(0)

C3_InitResult ==
  /\ [][InInit => C3_Step]_vars
  /\ [](pc \in {"I_cmd55", "I_cmd41"} => timeout \in 1..65535)

\* two rounds have answered not ready and a third is to start
C3_Witness ==
  /\ pc = "I_cmd55"
  /\ timeout = 65533
  /\ CmdIn(bus) = 41
  /\ RespIn(bus) = 1

(***************************************************************************)
(* C4  (as claimed) sd_init goes on to the initialize command only if the  *)
(* four bytes after the CMD8 response echo the pattern 0x000001AA.         *)
(***************************************************************************)
C4_EchoValidated ==
  (pc = "I_cmd55" /\ CmdIn(bus) = 8) =>
    LET x == Exchanges(bus)
    IN  [k \in 1..4 |-> x[Len(x) - 4 + k][3]] = <<0, 0, 1, 170>>

(***************************************************************************)
(* C5  (as claimed) on every return of sd_init and sd_read_sector the      *)
(* chip-select line is deasserted and one filler byte has been clocked     *)
(* after the deassertion.                                                  *)
(***************************************************************************)
C5_ReleasedOnReturn ==
  (pc = "M_ret") => (cs = 1 /\ Released(bus))

(***************************************************************************)
(* C6  Data phase of sd_read_sector: it is entered by the poll that reads  *)
(* the token 0xFE; it makes 512 exchanges whose received bytes are         *)
(* buffer[0..511] in order, then exactly 2 more exchanges before the       *)
(* release, and returns success whatever those two bytes are.              *)
(***************************************************************************)
C6_ReadData ==
  [][ /\ (pc' = "R_data" /\ pc # "R_data") => (pc = "R_token" /\ bus'[1][3] = 254)
      /\ (pc = "R_data") =>
           /\ Returns(1)
           /\ Len(bus') = 516
           /\ \A k \in 1..514 : IsTx(bus'[k]) /\ bus'[k][2] = 255
           /\ bus'[515] = CsEv(1)
           /\ Len(buffer') = 512
           /\ \A k \in 1..512 : buffer'[k] = bus'[k][3] ]_vars

\* a block has been read whose checksum bytes are not zero
C6_Witness ==
  /\ pc = "M_ret"
  /\ phase = 1
  /\ ret = 1
  /\ Len(bus) = 516
  /\ bus[513][3] = 18
  /\ buffer \in Mbrs

(***************************************************************************)
(* C7  Result of sd_read_sector: failure exactly when the CMD17 response   *)
(* is not 0x00 or none of 65535 polled bytes is the token 0xFE; a token on *)
(* any poll up to the 65535th leads to the data phase and success; a byte  *)
(* that is not the token is skipped.                                       *)
(***************************************************************************)
C7_Step ==
  /\ (pc = "R_cmd") =>
       IF RespIn(bus') = 0 THEN pc' = "R_token" /\ t' = 65535 ELSE Returns(0)
  /\ (pc = "R_token") =>
       IF bus'[1][3] = 254 THEN pc' = "R_data"
       ELSE IF t > 1 THEN pc' = "R_token" /\ t' = t - 1
       ELSE Returns(0)
  /\ (pc = "R_data") => Returns(1)

C7_ReadResult ==
  /\ [][InRead => C7_Step]_vars
  /\ [](pc = "R_token" => t \in 1..65535)

\* the VBR read has skipped two bytes that are not the token and polls on
C7_Witness ==
  /\ pc = "R_token"
  /\ phase = 2
  /\ t = 65533
  /\ bus = <<Tx(255, 255)>>

(***************************************************************************)
(* C8  Bounded waits: every step of sd_init and sd_read_sector lowers a    *)
(* rank that starts no higher than 2*65535+4 and is never negative, and    *)
(* makes at most 515 byte exchanges; so each call returns after a bounded  *)
(* number of exchanges whatever the card sends.                            *)
(***************************************************************************)
Rank ==
  CASE pc = "I_start" -> 2 * 65535 + 4
    [] pc = "I_cmd0"  -> 2 * 65535 + 3
    [] pc = "I_cmd8"  -> 2 * 65535 + 2
    [] pc = "I_cmd55" -> 2 * timeout + 1
    [] pc = "I_cmd41" -> 2 * timeout
    [] pc = "I_cmd58" -> 1
    [] pc = "R_cmd"   -> 65535 + 2
    [] pc = "R_token" -> t + 1
    [] pc = "R_data"  -> 1
    [] OTHER          -> 0

C8_BoundedWaits ==
  /\ [][(InInit \/ InRead) =>
          (Rank' < Rank /\ Rank' >= 0 /\ Len(Exchanges(bus')) <= 515)]_vars
  /\ [](Rank <= 2 * 65535 + 4)

\* a card that answers nothing to CMD41 has used up three rounds
C8_Witness ==
  /\ pc = "I_cmd55"
  /\ timeout = 65532
  /\ CmdIn(bus) = 41
  /\ RespIn(bus) = 255
  /\ Rank = 2 * 65532 + 1

(***************************************************************************)
(* C9  Command framing and response polling: every command sends exactly   *)
(* 6 bytes (0x40|cmd, the argument most significant byte first, the given  *)
(* checksum), then clocks 0xFF fillers and returns the first received byte *)
(* with the high bit clear, clocking nothing after it; at most 8 fillers   *)
(* are clocked, and if none of the 8 has the high bit clear the returned   *)
(* byte has it set, so it is neither 0x00 nor 0x01.                        *)
(***************************************************************************)
C9_Framing ==
  pc = "C_done" =>
    LET x == Exchanges(bus)
        n == FirstClear(call.reply)
    IN  /\ Len(x) = 6 + n
        /\ n <= 8
        /\ x[1][2] = 64 + call.cmd
        /\ \A k \in 1..4 : x[1 + k][2] = call.arg[k]
        /\ x[6][2] = call.crc
        /\ \A k \in 1..n : x[6 + k][2] = 255 /\ x[6 + k][3] = call.reply[k]
        /\ \A k \in 1..(n - 1) : call.reply[k] >= 128
        /\ ret = call.reply[n]
        /\ (\A k \in 1..RespPolls : call.reply[k] >= 128) => (ret >= 128 /\ ret \notin {0, 1})

\* a response after two busy bytes, with bytes left unread behind it
C9_Witness ==
  /\ pc = "C_done"
  /\ call.cmd = 17
  /\ call.reply = <<255, 128, 1, 0, 0, 0, 0, 0>>
  /\ ret = 1
  /\ Len(bus) = 10

(***************************************************************************)
(* C10  Emission filter: a 32-byte slot of the root-directory block is     *)
(* written to the output if and only if its first byte is neither 0x00 nor *)
(* 0xE5 and bit 0x08 of its attribute byte (offset 11) is clear.           *)
(***************************************************************************)
Bit3(b) == (b \div 8) % 2
Regular(buf, off) ==
  buf[off + 1] # 0 /\ buf[off + 1] # 229 /\ Bit3(buf[off + 12]) = 0

C10_EmissionFilter ==
  [][ pc = "M_dir" =>
        /\ Regular(buffer, i) => (Len(out') = Len(out) + 7 /\ out'[Len(out) + 1] = Lit("Name: "))
        /\ ~Regular(buffer, i) => out' = out ]_vars

\* the loop has met a slot it wrote and slots it left out
C10_Witness ==
  /\ pc = "halt"
  /\ phase = 3
  /\ Len(out) = 8 * 7
  /\ buffer[1] = 229
  /\ buffer[DIR_ENTRY_SIZE + 12] = 16

(***************************************************************************)
(* C11  (as claimed) end-of-directory marker: once a slot of the block     *)
(* with first byte 0x00 has been met, no later slot of the block is        *)
(* written to the output, whatever bytes it holds.                         *)
(***************************************************************************)
FreeBefore(buf, off) ==
  \E k \in 0..((off \div 32) - 1) : buf[32 * k + 1] = 0

C11_NothingAfterFree ==
  [][(pc = "M_dir" /\ FreeBefore(buffer, i)) => out' = out]_vars

(***************************************************************************)
(* Reading a raw name: the base field is bytes 0..7 of the entry, the      *)
(* extension field bytes 8..10.                                            *)
(***************************************************************************)
BaseField(e) == SubSeq(e, 1, 8)
ExtField(e) == SubSeq(e, 9, 11)
\* a field of bytes other than space followed by spaces only
Padded(f) ==
  \E n \in 0..Len(f) :
    /\ \A k \in 1..n : f[k] # 32
    /\ \A k \in (n + 1)..Len(f) : f[k] = 32
\* a field without its trailing spaces
Stripped(f) ==
  LET used == {k \in 1..Len(f) : f[k] # 32}
  IN  IF used = {} THEN <<>>
      ELSE SubSeq(f, 1, CHOOSE k \in used : \A j \in used : j <= k)
\* NAME.EXT, the dot left out when the extension field is all spaces
DisplayName(e) ==
  Stripped(BaseField(e))
    \o (IF Stripped(ExtField(e)) = <<>> THEN <<>> ELSE <<46>> \o Stripped(ExtField(e)))
\* the characters print_filename has sent
Rendered == out[Len(out)][2]

(***************************************************************************)
(* C12  (as claimed) for every raw name whose base and extension fields    *)
(* are bytes other than space followed by space padding, the rendered name *)
(* is the base bytes, then a dot and the extension bytes unless the        *)
(* extension is all spaces.                                                *)
(***************************************************************************)
C12_PaddedNames ==
  (pc = "N_done" /\ Padded(BaseField(call)) /\ Padded(ExtField(call)))
    => Rendered = DisplayName(call)

(***************************************************************************)
(* C12  (amended) the same for every such raw name none of whose 11 bytes  *)
(* is zero: "ABC     XY " renders "ABC.XY", "ABC        " renders "ABC".   *)
(***************************************************************************)
NoZero(e) == \A k \in 1..11 : e[k] # 0

C12_PaddedNamesNoZero ==
  (pc = "N_done" /\ Padded(BaseField(call)) /\ Padded(ExtField(call)) /\ NoZero(call))
    => Rendered = DisplayName(call)

\* a three-letter base and a two-letter extension, both padded
C12_Witness ==
  /\ pc = "N_done"
  /\ SubSeq(call, 1, 11) = <<65, 66, 67, 32, 32, 32, 32, 32, 88, 89, 32>>
  /\ Rendered = <<65, 66, 67, 46, 88, 89>>

(***************************************************************************)
(* C13  (as claimed) for every raw name, spaces inside or in front         *)
(* included, the rendered name is the base field without its trailing      *)
(* spaces, then a dot and the extension field without its trailing spaces, *)
(* the dot left out exactly when the extension field is all spaces.        *)
(* Stated for the raw names without a zero byte, for which the characters  *)
(* sent are all the characters of name[].                                  *)
(***************************************************************************)
C13_DisplayName ==
  (pc = "N_done" /\ NoZero(call)) => Rendered = DisplayName(call)

(***************************************************************************)
(* C20  Name buffer bound: for every raw name the rendered name has at     *)
(* most 12 characters and the index at which print_filename writes the     *)
(* terminating zero is at most 12, inside name[13].                        *)
(***************************************************************************)
C20_NameBound ==
  pc = "N_done" =>
    /\ Len(Rendered) <= 12
    /\ Len(NameBuf(call)) <= 12
    /\ Len(Rendered) <= Len(NameBuf(call))

\* eight base bytes, the dot and three extension bytes: index 12 is written
C20_Witness ==
  /\ pc = "N_done"
  /\ SubSeq(call, 1, 11) = Letters
  /\ Len(Rendered) = 12
  /\ Len(NameBuf(call)) = 12

(***************************************************************************)
(* C14  (as claimed) for every emitted record the size written to the      *)
(* output is the decimal value of the unsigned 32-bit little-endian        *)
(* integer of slot bytes 28..31, for every value in 0..2^32-1.             *)
(***************************************************************************)
\* the decimal digits of the value hi * 65536 + lo
RECURSIVE Decimal(_, _)
Decimal(hi, lo) ==
  IF hi = 0 /\ lo < 10 THEN <<48 + lo>>
  ELSE LET x == (hi % 10) * 65536 + lo
       IN  Decimal(hi \div 10, x \div 10) \o <<48 + (x % 10)>>

C14_SizeDecimal ==
  (pc = "E_done" /\ out # <<>>) =>
    out[6] = <<"str", Decimal(call[31] + 256 * call[32], call[29] + 256 * call[30])>>

(***************************************************************************)
(* Reading the fields of a boot sector, as numbers.                        *)
(***************************************************************************)
\* main has parsed the boot sector in buffer and calls for the root directory
Parsed == pc = "R_cmd" /\ phase = 3
BpbReserved == buffer[15] + 256 * buffer[16]
BpbFatCount == buffer[17]
BpbFatSizeLo == buffer[37] + 256 * buffer[38]
BpbFatSizeHi == buffer[39] + 256 * buffer[40]
\* reservedSectors + fatCount * fatSizeSectors, as its part below 2^16 and
\* the rest counted in units of 2^16
SumLow == BpbReserved + BpbFatCount * BpbFatSizeLo
SumHigh == BpbFatCount * BpbFatSizeHi + (SumLow \div 65536)

(***************************************************************************)
(* C15  Volume parse: for every boot sector, fat_start is the reserved     *)
(* sector count of bytes 14..15 and, whenever reservedSectors + fatCount   *)
(* * fatSizeSectors fits in 32 bits, data_start is that sum.               *)
(***************************************************************************)
C15_VolumeParse ==
  Parsed =>
    /\ fat32.fat_start = <<0, BpbReserved>>
    /\ (SumHigh < 65536) => fat32.data_start = <<SumHigh, SumLow % 65536>>

\* a sum that fits in 32 bits and carries from the low half into the high
C15_Witness ==
  /\ Parsed
  /\ BpbReserved = 65535 /\ BpbFatCount = 2 /\ BpbFatSizeLo = 4660 /\ BpbFatSizeHi = 257
  /\ SumHigh < 65536
  /\ fat32.data_start = <<515, 9319>>

(***************************************************************************)
(* C16  (as claimed) every geometry the parser produces and main uses has  *)
(* data_start >= fat_start and root_cluster >= 2, and the sector of the    *)
(* root directory is not below data_start.                                 *)
(***************************************************************************)
Geq32(a, b) == Hi(a) > Hi(b) \/ (Hi(a) = Hi(b) /\ Lo(a) >= Lo(b))

C16_Geometry ==
  Parsed =>
    /\ Geq32(fat32.data_start, fat32.fat_start)
    /\ Geq32(fat32.root_cluster, <<0, 2>>)
    /\ Geq32(sector, fat32.data_start)

(***************************************************************************)
(* C17  Read pipeline: sd_read_sector is called at most three times, for   *)
(* address 0 after a successful sd_init, then for the partition start of   *)
(* bytes 454..457 of block 0, then for dataStartSector + sectorsPerCluster *)
(* * (rootCluster - 2) of the boot sector read second, each after the      *)
(* success of the step before; no other step calls it, and the 16 slots    *)
(* decoded are those of the third block.                                   *)
(***************************************************************************)
PartitionStart == <<buffer[457] + 256 * buffer[458], buffer[455] + 256 * buffer[456]>>
\* the root-directory sector as a number, for a boot sector whose FAT size
\* and root cluster are below 2^16
RootSectorNumber ==
  SumLow + buffer[14] * ((buffer[45] + 256 * buffer[46]) - 2)
SmallGeometry ==
  /\ BpbFatSizeHi = 0
  /\ buffer[47] = 0 /\ buffer[48] = 0
  /\ RootSectorNumber >= 0

C17_Calls ==
  IF pc = "M_ret" /\ ret = 1 /\ phase = 0 THEN reads' = <<<<0, 0>>>>
  ELSE IF pc = "M_ret" /\ ret = 1 /\ phase = 1 THEN reads' = <<<<0, 0>>, PartitionStart>>
  ELSE IF pc = "M_ret" /\ ret = 1 /\ phase = 2
  THEN /\ SmallGeometry
       /\ reads' = <<reads[1], reads[2],
                     <<RootSectorNumber \div 65536, RootSectorNumber % 65536>>>>
  ELSE /\ reads' = reads
       /\ (pc = "M_dir") => (buffer' = buffer /\ Len(reads) = 3 /\ sector = reads[3])

C17_Pipeline ==
  /\ [][C17_Calls]_vars
  /\ [](Len(reads) <= 3)
  /\ []((pc \in {"M_dir", "halt"} /\ phase = 3 /\ ret = 1) => Len(reads) = 3)

\* the run of the example: every step has succeeded and the root directory
\* was read from sector 232
C17_Witness ==
  /\ pc = "halt"
  /\ phase = 3
  /\ ret = 1
  /\ reads = <<<<0, 0>>, <<0, 2048>>, <<0, 232>>>>
  /\ fat32.sectors_per_cluster = 4
  /\ buffer \in RootDirs

(***************************************************************************)
(* C18  Failure reporting without partial results: a directory record is   *)
(* in the output only after the root-directory read has returned success;  *)
(* when sd_init or a read returns failure, the next step writes the        *)
(* message of that phase and stops, that message is the only failure       *)
(* message and the last output, and no directory record is in the output.  *)
(***************************************************************************)
FailureMessage(ph) ==
  CASE ph = 0 -> Lit("SD Card init failed!\r\n")
    [] ph = 1 -> Lit("MBR read error\r\n")
    [] ph = 2 -> Lit("VBR read error\r\n")
    [] ph = 3 -> Lit("Root dir read error\r\n")
FailuresIn(o) == {k \in 1..Len(o) : \E ph \in 0..3 : o[k] = FailureMessage(ph)}
RecordsIn(o) == {k \in 1..Len(o) : o[k] = Lit("Name: ")}

C18_FailureReport ==
  /\ [][(pc = "M_ret" /\ ret = 0) =>
          (pc' = "halt" /\ out' = Append(out, FailureMessage(phase)))]_vars
  /\ [](RecordsIn(out) # {} => (pc \in {"M_dir", "halt"} /\ phase = 3 /\ ret = 1))
  /\ []((pc = "halt" /\ ret = 0) =>
          (FailuresIn(out) = {Len(out)} /\ out[Len(out)] = FailureMessage(phase)))
  /\ [](~(pc = "halt" /\ ret = 0) => FailuresIn(out) = {})

\* the root-directory read has failed after two good reads
C18_Witness ==
  /\ pc = "halt"
  /\ phase = 3
  /\ ret = 0
  /\ Len(reads) = 3
  /\ out[Len(out)] = Lit("Root dir read error\r\n")
  /\ RecordsIn(out) = {}

(***************************************************************************)
(* C19  Failed read leaves the buffer untouched: no step of sd_read_sector *)
(* before its data phase writes the buffer, every return of failure comes  *)
(* from such a step, and the data phase returns success; so after a failed *)
(* read the buffer holds what it held before the call.                     *)
(***************************************************************************)
C19_BufferFrame ==
  [][ InRead =>
        /\ (pc # "R_data") => buffer' = buffer
        /\ Returns(0) => (pc # "R_data" /\ buffer' = buffer)
        /\ (pc = "R_data") => Returns(1) ]_vars

\* the boot-sector read has failed and the buffer still holds the MBR
C19_Witness ==
  /\ pc = "M_ret"
  /\ phase = 2
  /\ ret = 0
  /\ buffer \in Mbrs
  /\ Released(bus)

=============================================================================
